---- MODULE Spec2Model ----
(***************************************************************************)
(* State-machine model of the weather tools (weather_agent/tools.py) and   *)
(* of the forecast formatter (weather_agent/utils.py).                     *)
(*                                                                         *)
(* One tool invocation is two steps: the call runs validation, the         *)
(* credential check and issues the HTTP request (the only suspension       *)
(* point); the provider's outcome then completes the invocation.           *)
(*                                                                         *)
(* Temperatures are integers in hundredths of a degree.  Timestamps are    *)
(* integers in seconds; the local time zone is taken to be UTC.            *)
(***************************************************************************)
EXTENDS Integers, Sequences, FiniteSets, TLC

VARIABLES
    apiKey,     \* config.WEATHER_API_KEY, read once at import
    pc,         \* "idle" | "awaiting" (request in flight) | "done"
    tool,       \* the tool of the current invocation
    city,       \* its city argument
    days,       \* its days argument
    number,     \* the argument of a unit conversion
    requests,   \* HTTP requests issued by the current invocation
    logs,       \* log records emitted by the current invocation
    outcome,    \* what the provider answered to the request, once it has
    result,     \* how the invocation ended: a return value or a raised error
    formatted   \* outcome of format_forecast applied to a returned forecast

vars == <<apiKey, pc, tool, city, days, number, requests, logs, outcome, result, formatted>>

----------------------------------------------------------------------------
(* Bounds *)

\* longest forecast series the provider returns
MaxPoints == 5

----------------------------------------------------------------------------
(* Python values *)

\* A Python value passed as `city`: a str (its characters), an int or None.
Cities ==
    { [type |-> "str",  chars |-> <<>>],
      [type |-> "str",  chars |-> <<" ">>],
      [type |-> "str",  chars |-> <<" ", "\t", " ">>],
      [type |-> "str",  chars |-> <<"P", "a", "r", "i", "s">>],
      [type |-> "int",  chars |-> <<"0">>],
      [type |-> "int",  chars |-> <<"7">>],
      [type |-> "none", chars |-> <<>>] }

\* A Python value passed as `days`: an int, a float, a str or None.
DaysValues ==
    [type : {"int"}, val : {0, 1, 5, 6}]
        \cup { [type |-> "float", val |-> 3],
               [type |-> "str",   val |-> 3],
               [type |-> "none",  val |-> 0] }

\* The str used where no city applies.
NoCity == [type |-> "none", chars |-> <<>>]
NoDays == [type |-> "none", val |-> 0]

\* Values of the environment variable WEATHER_API_KEY: unset, empty, set.
ApiKeys ==
    { [set |-> FALSE, value |-> ""],
      [set |-> TRUE,  value |-> ""],
      [set |-> TRUE,  value |-> "k3y"] }

\* bool(value)
Truthy(v) ==
    CASE v.type = "str" -> Len(v.chars) > 0
      [] v.type = "int" -> v.chars # <<"0">>
      [] OTHER          -> FALSE

Whitespace == {" ", "\t", "\n"}

RECURSIVE LStrip(_)
LStrip(s) ==
    IF s # <<>> /\ Head(s) \in Whitespace THEN LStrip(Tail(s)) ELSE s

RECURSIVE RStrip(_)
RStrip(s) ==
    IF s # <<>> /\ s[Len(s)] \in Whitespace
    THEN RStrip(SubSeq(s, 1, Len(s) - 1))
    ELSE s

\* str.strip()
Strip(s) == RStrip(LStrip(s))

\* not city or not isinstance(city, str) or len(city.strip()) == 0
CityRejected(c) ==
    \/ ~Truthy(c)
    \/ c.type # "str"
    \/ Len(Strip(c.chars)) = 0

\* DaysRejected with the upper limit off by one
DaysRejectedUpTo6(d) ==
    \/ d.type # "int"
    \/ d.val < 1
    \/ d.val > 6

\* not isinstance(days, int) or days < 1 or days > 5
DaysRejected(d) ==
    \/ d.type # "int"
    \/ d.val < 1
    \/ d.val > 5

----------------------------------------------------------------------------
(* Request parameters, log records, results *)

LANGUAGE == "en"

\* forecast points per day: cnt = days * 8
PointsPerDay == 8

\* A params dict: `keys` are the keys present.
Params(keys, q, cnt, appid) ==
    [keys |-> keys, q |-> q, cnt |-> cnt, appid |-> appid, lang |-> LANGUAGE]

NoParams == Params({}, NoCity, 0, "")

\* params.update({'appid': WEATHER_API_KEY, 'lang': LANGUAGE})
WithAuth(p) ==
    [p EXCEPT !.keys = @ \cup {"appid", "lang"}, !.appid = apiKey.value]

\* A log record: its level, the line of tools.py that emits it, and the
\* params dict interpolated into its message (NoParams when none is).
Log(level, line, params) == [level |-> level, line |-> line, params |-> params]


\* How a call ends: `kind` is "return" (with `data`, and `report` for the
\* trend analysis) or "raise" (with the exception's type and attributes).
NoBody ==
    [kind |-> "none", keys |-> {}, message |-> "", list |-> <<>>,
     name |-> <<>>, country |-> ""]

NoReport == [present |-> FALSE]

Return(data) ==
    [kind |-> "return", type |-> "", status_code |-> 0, message |-> "",
     data |-> data, report |-> NoReport]

Raise(type, status_code, message) ==
    [kind |-> "raise", type |-> type, status_code |-> status_code,
     message |-> message, data |-> NoBody, report |-> NoReport]

NoResult ==
    [kind |-> "none", type |-> "", status_code |-> 0, message |-> "",
     data |-> NoBody, report |-> NoReport]

----------------------------------------------------------------------------
(* The provider: response bodies and transport outcomes *)

PointKeys == {"dt", "main", "weather"}

\* One entry of a forecast 'list': `has` are the keys present, dt the
\* timestamp, temp is main.temp in Kelvin, cond is weather[0].main.
Point(has, dt, temp, cond) ==
    [has |-> has, dt |-> dt, temp |-> temp, cond |-> cond]

Points ==
    { Point(PointKeys, 43190, 29000, "Rain"),      \* day 0 11:59:50  290.00 K
      Point(PointKeys, 43270, 29300, "Clear"),     \* day 0 12:01:10  293.00 K
      Point(PointKeys, 129600, 29100, "Clear"),    \* day 1 12:00:00  291.00 K
      Point({"dt", "weather"}, 43200, 0, "Rain"),  \* no 'main'
      Point({"main", "weather"}, 0, 29100, "Rain") \* no 'dt'
    }

Series == UNION { [1..n -> Points] : n \in 0..MaxPoints }

Body(kind, keys, message, list, name, country) ==
    [kind |-> kind, keys |-> keys, message |-> message, list |-> list,
     name |-> name, country |-> country]

CityName == <<"P", "a", "r", "i", "s">>

SnapshotBody == Body("snapshot", {"name", "main", "weather"}, "", <<>>, CityName, "FR")

ForecastBodies ==
    { Body("forecast", {}, "", <<>>, <<>>, "") }
        \cup { Body("forecast", {"city", "list"}, "", s, CityName, "FR") : s \in Series }

ProviderMessage(status) ==
    CASE status = 401 -> "Invalid API key"
      [] status = 404 -> "city not found"
      [] OTHER        -> "Internal error"

ErrorBodies(status) ==
    { Body("error", {"cod", "message"}, ProviderMessage(status), <<>>, <<>>, ""),
      Body("error", {"cod"}, "", <<>>, <<>>, "") }

\* What `session.get(...)` followed by `response.json()` can produce:
\* a response whose body decoded to a JSON object, or an exception.
Response(status, body) ==
    [kind |-> "response", status |-> status, body |-> body, exc |-> ""]

Failure(exc, status) ==
    [kind |-> "exception", status |-> status, body |-> NoBody, exc |-> exc]

Outcomes(endpoint) ==
    { Response(200, b) :
        b \in IF endpoint = "weather" THEN {SnapshotBody} ELSE ForecastBodies }
        \cup UNION { { Response(st, b) : b \in ErrorBodies(st) } : st \in {401, 404, 500} }
        \cup { Failure("ClientConnectorError", 0),     \* DNS / TCP failure
               Failure("ServerDisconnectedError", 0),  \* another ClientError
               Failure("ContentTypeError", 502),       \* body is not JSON
               Failure("asyncio.TimeoutError", 0),     \* the 10 s budget ran out
               Failure("JSONDecodeError", 0) }         \* body cannot be decoded

\* The classes an exception is an instance of.
Superclasses(exc) ==
    CASE exc = "ClientConnectorError" ->
            {"ClientConnectorError", "ClientOSError", "ClientConnectionError",
             "ClientError", "OSError", "Exception"}
      [] exc = "ServerDisconnectedError" ->
            {"ServerDisconnectedError", "ServerConnectionError",
             "ClientConnectionError", "ClientError", "Exception"}
      [] exc = "ContentTypeError" ->
            {"ContentTypeError", "ClientResponseError", "ClientError", "Exception"}
      [] exc = "asyncio.TimeoutError" -> {"asyncio.TimeoutError", "Exception"}
      [] exc = "JSONDecodeError" -> {"JSONDecodeError", "ValueError", "Exception"}
      [] OTHER -> {exc, "Exception"}


----------------------------------------------------------------------------
(* _make_api_call *)

\* if not WEATHER_API_KEY
KeyMissing == ~apiKey.set \/ apiKey.value = ""

\* An operator's first half ends either with a raised error (sent = FALSE)
\* or with its HTTP request issued (sent = TRUE).
Stopped(res, lg) == [sent |-> FALSE, res |-> res, logs |-> lg, request |-> [endpoint |-> "", params |-> NoParams]]
Sent(endpoint, params) == [sent |-> TRUE, res |-> NoResult, logs |-> <<>>, request |-> [endpoint |-> endpoint, params |-> params]]

\* _make_api_call up to `session.get(url, params=params, timeout=10)`.
MakeApiCallStart(endpoint, params) ==
    IF KeyMissing
    THEN Stopped(Raise("WeatherAPIError", 401, "API key not configured"),
                 <<Log("error", 44, NoParams)>>)
    ELSE Sent(endpoint, WithAuth(params))

\* ExceptClauses with the catch-all clause written first
ExceptClausesBroadFirst ==
    <<"Exception", "ClientConnectorError", "ClientResponseError", "ClientError",
      "asyncio.TimeoutError">>

\* The except clauses of _make_api_call, in source order.
ExceptClauses ==
    <<"ClientConnectorError", "ClientResponseError", "ClientError",
      "asyncio.TimeoutError", "Exception">>

\* The first except clause that matches an exception of class exc.
MatchingClause(exc) ==
    CHOOSE i \in 1..Len(ExceptClauses) :
        /\ ExceptClauses[i] \in Superclasses(exc)
        /\ \A j \in 1..(i - 1) : ExceptClauses[j] \notin Superclasses(exc)

\* HandleException as a single `except Exception` that reports every error
\* as a failed request
HandleExceptionAsFailedRequest(e) ==
    [res |-> Raise("ConnectionError", 0, "API request failed"),
     logs |-> <<Log("error", 68, NoParams)>>]

\* The body of the matching except clause: what it logs and raises.  `e` is
\* the exception as a Raise record; str(e) is the library's text.
HandleException(e) ==
    LET clause == ExceptClauses[MatchingClause(e.type)] IN
    CASE clause = "ClientConnectorError" ->
            [res |-> Raise("ConnectionError", 0, "Failed to connect to OpenWeather API"),
             logs |-> <<Log("error", 62, NoParams)>>]
      [] clause = "ClientResponseError" ->
            [res |-> Raise("WeatherAPIError", e.status_code, "str(e)"),
             logs |-> <<Log("error", 65, NoParams)>>]
      [] clause = "ClientError" ->
            [res |-> Raise("ConnectionError", 0, "API request failed"),
             logs |-> <<Log("error", 68, NoParams)>>]
      [] clause = "asyncio.TimeoutError" ->
            [res |-> Raise("TimeoutError", 0, "OpenWeather API request timed out"),
             logs |-> <<Log("error", 71, NoParams)>>]
      [] OTHER ->
            [res |-> e, logs |-> <<Log("error", 74, NoParams)>>]

\* data.get('message', 'Unknown error')
ErrorMsg(body) ==
    IF "message" \in body.keys THEN body.message ELSE "Unknown error"

\* MakeApiCallFinish that swallows every failure and returns an empty body
MakeApiCallFinishSwallowing(endpoint, params, o) ==
    IF o.kind = "response" /\ o.status = 200
    THEN [res |-> Return(o.body), logs |-> <<>>]
    ELSE [res |-> Return(NoBody), logs |-> <<Log("error", 74, NoParams)>>]

\* The try block of _make_api_call once the provider's outcome is known;
\* `params` is the dict after params.update(...).
MakeApiCallFinish(endpoint, params, o) ==
    IF o.kind = "response"
    THEN IF o.status # 200
         THEN LET raised == Raise("WeatherAPIError", o.status, ErrorMsg(o.body))
                  h == HandleException(raised)
              IN  [res |-> h.res, logs |-> <<Log("error", 58, params)>> \o h.logs]
         ELSE [res |-> Return(o.body), logs |-> <<>>]
    ELSE HandleException(Raise(o.exc, o.status, "str(e)"))


----------------------------------------------------------------------------
(* analyze_weather_trends: the functions of the analysis pipeline *)

\* 273.15, in hundredths of a degree
KelvinOffset == 27315

SecondsPerDay == 86400

RECURSIVE SumSeq(_)
SumSeq(s) == IF s = <<>> THEN 0 ELSE Head(s) + SumSeq(Tail(s))

Abs(x) == IF x < 0 THEN -x ELSE x

MinOf(s) == CHOOSE x \in {s[i] : i \in 1..Len(s)} : \A i \in 1..Len(s) : x <= s[i]
MaxOf(s) == CHOOSE x \in {s[i] : i \in 1..Len(s)} : \A i \in 1..Len(s) : x >= s[i]

\* A float that is a quotient of integers, kept exact: num / den hundredths.
Ratio(num, den) == [num |-> num, den |-> den]

\* f"{x:.1f}°C": x rounded to one decimal, in tenths, with its unit.
FormatTemp1(r) ==
    [tenths |-> (2 * r.num + 10 * r.den) \div (20 * r.den), unit |-> "C"]

\* extract_temperatures
extract_temperatures(data) ==
    IF "list" \notin data.keys
    THEN <<>>
    ELSE [i \in 1..Len(data.list) |-> data.list[i].temp]

\* k_to_c
k_to_c(temp) == temp - KelvinOffset

\* k_to_c applied to a quotient
k_to_c_ratio(r) == Ratio(r.num - KelvinOffset * r.den, r.den)

\* average: 0.0 for an empty list, else sum / len
average(values) ==
    IF values = <<>> THEN Ratio(0, 1) ELSE Ratio(SumSeq(values), Len(values))

\* calculate_changes without the leading zero
calculate_changes_no_lead(temps) ==
    [i \in 1..(Len(temps) - 1) |-> temps[i + 1] - temps[i]]

\* calculate_changes
calculate_changes(temps) ==
    [i \in 1..Len(temps) |-> IF i > 1 THEN temps[i] - temps[i - 1] ELSE 0]

\* A dict as the sequence of its items in insertion order.
DictKeys(d) == {d[i].key : i \in 1..Len(d)}

DictIndex(d, k) == CHOOSE i \in 1..Len(d) : d[i].key = k

\* DictSet that appends a new item even when the key is present
DictSetAppending(d, k, v) == Append(d, [key |-> k, value |-> v])

\* {**acc, k: v}: an existing key keeps its position
DictSet(d, k, v) ==
    IF k \in DictKeys(d)
    THEN [d EXCEPT ![DictIndex(d, k)] = [key |-> k, value |-> v]]
    ELSE Append(d, [key |-> k, value |-> v])

\* acc.get(k, default)
DictGet(d, k, default) ==
    IF k \in DictKeys(d) THEN d[DictIndex(d, k)].value ELSE default

RECURSIVE CountConditions(_, _)
CountConditions(conds, acc) ==
    IF conds = <<>>
    THEN acc
    ELSE CountConditions(Tail(conds),
                         DictSet(acc, Head(conds), DictGet(acc, Head(conds), 0) + 1))

\* condition_frequency
condition_frequency(data) ==
    IF "list" \notin data.keys
    THEN <<>>
    ELSE CountConditions([i \in 1..Len(data.list) |-> data.list[i].cond], <<>>)

\* dominant_condition: max() returns the first item with the largest count
dominant_condition(counts) ==
    IF counts = <<>>
    THEN [key |-> "Unknown", value |-> 0]
    ELSE counts[CHOOSE i \in 1..Len(counts) :
                    /\ \A j \in 1..Len(counts) : counts[j].value <= counts[i].value
                    /\ \A j \in 1..(i - 1) : counts[j].value < counts[i].value]

\* len(significant_changes) <= len(changes) * 0.2, with abs(change) > 1
categorize_trend(changes) ==
    IF changes = <<>>
    THEN "stable"
    ELSE LET significant == {i \in 1..Len(changes) : Abs(changes[i]) > 100}
             trend_sum == SumSeq(changes)
         IN  IF 10 * Cardinality(significant) <= 2 * Len(changes)
             THEN "stable"
             ELSE IF trend_sum > 0 THEN "warming" ELSE "cooling"

\* datetime.fromtimestamp(dt).strftime('%Y-%m-%d'): the calendar date, as
\* the number of the day since the epoch
DateKey(dt) == [day |-> dt \div SecondsPerDay]

RECURSIVE GroupByDate(_, _)
GroupByDate(items, acc) ==
    IF items = <<>>
    THEN acc
    ELSE LET k == DateKey(Head(items).dt)
         IN  GroupByDate(Tail(items),
                         DictSet(acc, k, Append(DictGet(acc, k, <<>>), Head(items))))

\* the reduce that builds days_data
days_data(data) == GroupByDate(data.list, <<>>)

\* daily_averages
daily_averages(data) ==
    IF "list" \in data.keys
    THEN LET dd == days_data(data)
         IN  [i \in 1..Len(dd) |->
                 [date |-> dd[i].key,
                  avg_temp |-> average([j \in 1..Len(dd[i].value) |-> dd[i].value[j].temp])]]
    ELSE <<>>

\* analyze_data, for a payload whose points carry every key it reads
\* ('analysis_timestamp', the wall clock, is left out)
analyze_data(data, requested) ==
    LET temps == extract_temperatures(data)
        temp_changes == calculate_changes(temps)
        conditions == condition_frequency(data)
        celsius_temps == [i \in 1..Len(temps) |-> k_to_c(temps[i])]
        min_temp == IF celsius_temps # <<>> THEN MinOf(celsius_temps) ELSE 0
        max_temp == IF celsius_temps # <<>> THEN MaxOf(celsius_temps) ELSE 0
        temp_range == max_temp - min_temp
    IN  [present |-> TRUE,
         city |-> IF "city" \in data.keys THEN data.name ELSE requested.chars,
         country |-> IF "city" \in data.keys THEN data.country ELSE "",
         average_temp |-> FormatTemp1(k_to_c_ratio(average(temps))),
         min_temp |-> FormatTemp1(Ratio(min_temp, 1)),
         max_temp |-> FormatTemp1(Ratio(max_temp, 1)),
         temp_range |-> FormatTemp1(Ratio(temp_range, 1)),
         trend |-> categorize_trend(temp_changes),
         dominant_condition |-> dominant_condition(conditions).key,
         condition_frequency |-> conditions,
         daily_averages |-> daily_averages(data),
         data_points |-> Len(temps)]

\* The key whose absence makes analyze_data raise KeyError: item['main'] is
\* read first (extract_temperatures), then item['weather'], then item['dt'].
MissingKey(data) ==
    LET lacks(k) == \E i \in 1..Len(data.list) : k \notin data.list[i].has
    IN  IF "list" \notin data.keys THEN "none"
        ELSE IF lacks("main") THEN "main"
        ELSE IF lacks("weather") THEN "weather"
        ELSE IF lacks("dt") THEN "dt"
        ELSE "none"


----------------------------------------------------------------------------
(* utils.format_forecast *)

\* The names bound in the globals of utils.py: its two imports and its
\* three functions.
UtilsGlobals ==
    {"Dict", "Any", "datetime",
     "format_temperature", "format_weather_description", "format_forecast"}

\* Evaluating `logger.warning(...)` / `logger.error(...)` in utils.py looks
\* the name up in the module's globals and raises NameError if it is unbound.
LoggerBound == "logger" \in UtilsGlobals

Text(text, lines) == [kind |-> "return", type |-> "", text |-> text, lines |-> lines]
FormatRaise(type) == [kind |-> "raise", type |-> type, text |-> "", lines |-> <<>>]
NotFormatted == [kind |-> "none", type |-> "", text |-> "", lines |-> <<>>]

\* except Exception as e: logger.error(...); return "<error string>"
OuterExcept ==
    IF LoggerBound THEN Text("error_string", <<>>) ELSE FormatRaise("NameError")

RECURSIVE GroupForecasts(_, _)
GroupForecasts(items, acc) ==
    IF items = <<>>
    THEN acc
    ELSE LET f == Head(items)
             k == DateKey(f.dt)
             old == DictGet(acc, k, [date |-> f.dt, forecasts |-> <<>>])
         IN  GroupForecasts(Tail(items),
                            DictSet(acc, k, [old EXCEPT !.forecasts = Append(@, f)]))

\* sorted(daily_forecasts.items(), key=lambda x: x[0])
RECURSIVE SortedItems(_)
SortedItems(d) ==
    IF d = <<>>
    THEN <<>>
    ELSE LET i == CHOOSE i \in 1..Len(d) : \A j \in 1..Len(d) : d[i].key.day <= d[j].key.day
         IN  <<d[i]>> \o SortedItems(SubSeq(d, 1, i - 1) \o SubSeq(d, i + 1, Len(d)))

\* day_data['date'].replace(hour=12, minute=0).timestamp(): the seconds of
\* the bucket's first timestamp are kept
NoonOf(dt) == (dt \div SecondsPerDay) * SecondsPerDay + 12 * 3600 + (dt % 60)

\* min(forecasts, key=...): the first forecast at the least distance
best_forecast(day_data) ==
    LET fs == day_data.forecasts
        dist(x) == Abs(x.dt - NoonOf(day_data.date))
    IN  fs[CHOOSE i \in 1..Len(fs) :
                /\ \A j \in 1..Len(fs) : dist(fs[i]) <= dist(fs[j])
                /\ \A j \in 1..(i - 1) : dist(fs[j]) > dist(fs[i])]

format_forecast(forecast_data, n) ==
    LET forecast_list == IF "list" \in forecast_data.keys THEN forecast_data.list ELSE <<>>
        HasDt(f) == "dt" \in f.has
    IN  IF forecast_list = <<>>
        THEN Text("no_data", <<>>)
        ELSE IF (\E i \in 1..Len(forecast_list) : ~HasDt(forecast_list[i])) /\ ~LoggerBound
        THEN \* forecast['dt'] raises KeyError; the inner handler's logger.warning
             \* raises NameError, which reaches the outer handler
             OuterExcept
        ELSE LET daily_forecasts == GroupForecasts(SelectSeq(forecast_list, HasDt), <<>>)
                 all_days == SortedItems(daily_forecasts)
                 sorted_days == SubSeq(all_days, 1, IF n < Len(all_days) THEN n ELSE Len(all_days))
                 best == [i \in 1..Len(sorted_days) |-> best_forecast(sorted_days[i].value)]
             IN  IF \E i \in 1..Len(best) : {"main", "weather"} \ best[i].has # {}
                 THEN \* best_forecast['main'] / ['weather'] raises KeyError
                      OuterExcept
                 ELSE Text("report",
                           [i \in 1..Len(best) |->
                               [date |-> sorted_days[i].key, dt |-> best[i].dt,
                                temp |-> best[i].temp, cond |-> best[i].cond]])

----------------------------------------------------------------------------
(* The tools *)

ErrorLog(line) == Log("error", line, NoParams)

\* Appends the log record of a tool's `except Exception` clause when the
\* call raised; the exception is re-raised unchanged.
Reraise(f, line) ==
    IF f.res.kind = "raise"
    THEN [f EXCEPT !.logs = @ \o <<ErrorLog(line)>>]
    ELSE f

get_weather_start(c) ==
    IF CityRejected(c)
    THEN Stopped(Raise("ValidationError", 0, "City name must be a non-empty string"),
                 <<ErrorLog(92)>>)
    ELSE Reraise(MakeApiCallStart("weather", Params({"q"}, c, 0, "")), 99)

get_weather_finish(params, o) ==
    Reraise(MakeApiCallFinish("weather", params, o), 99)

get_forecast_start(c, d) ==
    IF CityRejected(c)
    THEN Stopped(Raise("ValidationError", 0, "City name must be a non-empty string"),
                 <<ErrorLog(118)>>)
    ELSE IF DaysRejected(d)
    THEN Stopped(Raise("ValidationError", 0, "Days must be an integer between 1 and 5"),
                 <<ErrorLog(122)>>)
    ELSE Reraise(MakeApiCallStart("forecast",
                                  Params({"q", "cnt"}, c, d.val * PointsPerDay, "")), 133)

get_forecast_finish(params, o) ==
    Reraise(MakeApiCallFinish("forecast", params, o), 133)

analyze_weather_trends_start(c, d) ==
    IF CityRejected(c)
    THEN Stopped(Raise("ValidationError", 0, "City name must be a non-empty string"),
                 <<ErrorLog(228)>>)
    ELSE IF DaysRejected(d)
    THEN Stopped(Raise("ValidationError", 0, "Days must be an integer between 1 and 5"),
                 <<ErrorLog(232)>>)
    ELSE Reraise(get_forecast_start(c, d), 389)

analyze_weather_trends_finish(c, params, o) ==
    LET f == get_forecast_finish(params, o)
    IN  IF f.res.kind = "raise"
        THEN Reraise(f, 389)
        ELSE IF MissingKey(f.res.data) # "none"
        THEN [res |-> Raise("KeyError", 0, MissingKey(f.res.data)),
              logs |-> f.logs \o <<ErrorLog(389)>>]
        ELSE [res |-> [Return(NoBody) EXCEPT !.report = analyze_data(f.res.data, c)],
              logs |-> f.logs]

----------------------------------------------------------------------------
(* The unit converters *)

\* A Python value passed to a converter: an int or a float (val is the
\* number in hundredths), a str or None.
NumberValues(ints, floats) ==
    [type : {"int"}, val : ints]
        \cup [type : {"float"}, val : floats]
        \cup { [type |-> "str", val |-> 100], [type |-> "none", val |-> 0] }

\* Kelvin arguments: -1, 0, 300, and -0.01, 0.01, 273.15, 293.12
Temperatures == NumberValues({-100, 0, 30000}, {-1, 1, 27315, 29312})

\* Mile arguments: -1, 0, 26, and -0.01, 0.01, 2.5, 49.99
Distances == NumberValues({-100, 0, 2600}, {-1, 1, 250, 4999})

\* isinstance(x, (float, int))
IsNumber(x) == x.type \in {"float", "int"}

\* 1.60934, in units of 1/100000
KmPerMile == 160934

\* f"{kilometers:.2f} km": kilometers, held in units of 1/10000000, rounded
\* to two decimals, in hundredths
FormatKm2(km) ==
    [hundredths |-> (2 * km + 100000) \div 200000, unit |-> "km"]

\* The dict a converter returns, as the `report` of a Return.
Converted(dict) == [Return(NoBody) EXCEPT !.report = dict]

\* kelvin_to_celsius with the floor test written `<= 0`
kelvin_to_celsius_rejecting_zero(temperature) ==
    IF ~IsNumber(temperature) \/ temperature.val <= 0
    THEN [res |-> Raise("ValidationError", 0, "Temperature must be a number"),
          logs |-> <<>>]
    ELSE [res |-> Converted([present |-> TRUE,
                             kelvin |-> temperature,
                             celsius |-> temperature.val - KelvinOffset]),
          logs |-> <<>>]

\* kelvin_to_celsius; `except ValidationError: raise` lets both errors out
\* unchanged, and nothing else in the try block can raise for these values
kelvin_to_celsius(temperature) ==
    IF ~IsNumber(temperature)
    THEN [res |-> Raise("ValidationError", 0, "Temperature must be a number"),
          logs |-> <<>>]
    ELSE IF temperature.val < 0
    THEN [res |-> Raise("ValidationError", 0,
                        "Temperature cannot be below absolute zero (0K)"),
          logs |-> <<Log("warning", 155, NoParams)>>]
    ELSE LET celsius == temperature.val - KelvinOffset
         IN  [res |-> Converted([present |-> TRUE,
                                 kelvin |-> temperature,
                                 celsius |-> celsius,
                                 formatted |-> FormatTemp1(Ratio(celsius, 1))]),
              logs |-> <<>>]

\* miles_to_km; kilometers is kept exact, in units of 1/10000000
miles_to_km(miles) ==
    IF ~IsNumber(miles)
    THEN [res |-> Raise("ValidationError", 0, "Distance must be a number"),
          logs |-> <<>>]
    ELSE IF miles.val < 0
    THEN [res |-> Raise("ValidationError", 0, "Distance cannot be negative"),
          logs |-> <<Log("warning", 189, NoParams)>>]
    ELSE LET kilometers == miles.val * KmPerMile
         IN  [res |-> Converted([present |-> TRUE,
                                 miles |-> miles,
                                 kilometers |-> kilometers,
                                 formatted |-> FormatKm2(kilometers)]),
              logs |-> <<>>]

----------------------------------------------------------------------------
(* The state machine *)

Init ==
    /\ apiKey \in ApiKeys
    /\ pc = "idle"
    /\ tool = "none"
    /\ city = NoCity
    /\ days = NoDays
    /\ number = NoDays
    /\ requests = <<>>
    /\ logs = <<>>
    /\ outcome = Failure("", 0)
    /\ result = NoResult
    /\ formatted = NotFormatted

\* A tool is invoked: everything it does up to its first suspension.  All
\* state but the API key is scoped to the invocation, so a behaviour follows
\* one invocation from each initial state.
Begin(t, c, d, start) ==
    /\ pc = "idle"
    /\ tool' = t
    /\ city' = c
    /\ days' = d
    /\ number' = NoDays
    /\ pc' = IF start.sent THEN "awaiting" ELSE "done"
    /\ requests' = IF start.sent THEN <<start.request>> ELSE <<>>
    /\ logs' = start.logs
    /\ result' = start.res
    /\ outcome' = Failure("", 0)
    /\ formatted' = NotFormatted
    /\ UNCHANGED apiKey

\* The awaited request completes and the tool runs to its end.
End(o, finish) ==
    /\ pc' = "done"
    /\ outcome' = o
    /\ logs' = logs \o finish.logs
    /\ result' = finish.res
    /\ UNCHANGED <<apiKey, tool, city, days, number, requests, formatted>>

GetWeather ==
    \E c \in Cities : Begin("get_weather", c, NoDays, get_weather_start(c))

GetForecast ==
    \E c \in Cities, d \in DaysValues :
        Begin("get_forecast", c, d, get_forecast_start(c, d))

AnalyzeWeatherTrends ==
    \E c \in Cities, d \in DaysValues :
        Begin("analyze_weather_trends", c, d, analyze_weather_trends_start(c, d))

GetWeatherDone ==
    /\ pc = "awaiting" /\ tool = "get_weather"
    /\ \E o \in Outcomes("weather") :
        End(o, get_weather_finish(requests[1].params, o))

GetForecastDone ==
    /\ pc = "awaiting" /\ tool = "get_forecast"
    /\ \E o \in Outcomes("forecast") :
        End(o, get_forecast_finish(requests[1].params, o))

AnalyzeWeatherTrendsDone ==
    /\ pc = "awaiting" /\ tool = "analyze_weather_trends"
    /\ \E o \in Outcomes("forecast") :
        End(o, analyze_weather_trends_finish(city, requests[1].params, o))

\* The caller renders a forecast it got from get_forecast.
FormatForecast ==
    /\ pc = "done" /\ tool = "get_forecast"
    /\ result.kind = "return"
    /\ formatted.kind = "none"
    /\ formatted' = format_forecast(result.data, days.val)
    /\ UNCHANGED <<apiKey, pc, tool, city, days, number, requests, logs, outcome, result>>

\* A unit conversion runs to its end in one step; it reads its argument
\* only and assigns nothing outside its own frame.
Convert(t, x, done) ==
    /\ pc = "idle"
    /\ tool' = t
    /\ number' = x
    /\ pc' = "done"
    /\ logs' = done.logs
    /\ result' = done.res
    /\ UNCHANGED <<apiKey, city, days, requests, outcome, formatted>>

KelvinToCelsius ==
    \E x \in Temperatures : Convert("kelvin_to_celsius", x, kelvin_to_celsius(x))

MilesToKm ==
    \E x \in Distances : Convert("miles_to_km", x, miles_to_km(x))

Next ==
    \/ GetWeather
    \/ GetForecast
    \/ AnalyzeWeatherTrends
    \/ GetWeatherDone
    \/ GetForecastDone
    \/ AnalyzeWeatherTrendsDone
    \/ FormatForecast
    \/ KelvinToCelsius
    \/ MilesToKm

Spec == Init /\ [][Next]_vars


----------------------------------------------------------------------------
(* Properties *)

ForecastTools == {"get_forecast", "analyze_weather_trends"}

\* One of the tools that call the provider has been invoked.
Invoked == tool \in {"get_weather"} \cup ForecastTools

\* The city is not a str, or is empty or made of whitespace only.
BlankCity(c) ==
    \/ c.type # "str"
    \/ \A i \in 1..Len(c.chars) : c.chars[i] \in Whitespace

\* The days argument is not an integer in 1..5.
DaysOutOfRange(d) == ~(d.type = "int" /\ d.val \in 1..5)

\* C1: an invocation whose city is not a non-blank string, or (for
\* get_forecast and analyze_weather_trends) whose days is not an integer in
\* 1..5, ends with ValidationError and issues no HTTP request.
C1_InvalidArgumentsNeverReachNetwork ==
    (/\ Invoked
     /\ \/ BlankCity(city)
        \/ tool \in ForecastTools /\ DaysOutOfRange(days))
        => /\ pc = "done"
           /\ result.kind = "raise"
           /\ result.type = "ValidationError"
           /\ requests = <<>>

\* get_forecast("Paris", 6) was rejected.
C1_Witness ==
    /\ tool = "get_forecast"
    /\ ~BlankCity(city)
    /\ days = [type |-> "int", val |-> 6]
    /\ result.type = "ValidationError"
    /\ requests = <<>>

\* A log record shows the credential when the params dict interpolated into
\* it holds the appid.
ShowsCredential(record) ==
    /\ "appid" \in record.params.keys
    /\ record.params.appid = apiKey.value

\* C2: no log record emitted during an invocation contains the credential
\* (the appid value), whatever the outcome of the request.
C2_NoCredentialInLogs ==
    \A i \in 1..Len(logs) : ~ShowsCredential(logs[i])

\* C3: format_forecast never raises to its caller: for every payload it
\* returns a string.
C3_FormatForecastNeverRaises == formatted.kind # "raise"

\* The error type raised for a non-200 provider response.
ApplicationErrorType ==
    MakeApiCallFinish("weather", NoParams,
                      Response(404, CHOOSE b \in ErrorBodies(404) : TRUE)).res.type

\* C4: with the API key missing, a call that passes validation fails before
\* any HTTP request, with an error type other than the one raised for a
\* non-200 provider response.
C4_MissingKeyIsDistinctFailure ==
    (/\ Invoked
     /\ KeyMissing
     /\ result.type # "ValidationError")
        => /\ pc = "done"
           /\ result.kind = "raise"
           /\ requests = <<>>
           /\ result.type # ApplicationErrorType

C6_TransportFailuresClassified ==
    (pc = "done" /\ outcome.kind = "exception")
        => /\ outcome.exc = "asyncio.TimeoutError"
                => result.kind = "raise" /\ result.type = "TimeoutError"
           /\ outcome.exc = "ClientConnectorError"
                => result.kind = "raise" /\ result.type = "ConnectionError"

\* A timed-out request surfaced as TimeoutError.
C6_Witness ==
    /\ pc = "done"
    /\ outcome.exc = "asyncio.TimeoutError"
    /\ result.type = "TimeoutError"

RequestFailed ==
    \/ outcome.kind = "exception" /\ outcome.exc # ""
    \/ outcome.kind = "response" /\ outcome.status # 200

\* C7: an invocation issues at most one HTTP request, and one whose request
\* failed ends by raising.
C7_AtMostOneRequestNoRetry ==
    /\ Len(requests) <= 1
    /\ (pc = "done" /\ RequestFailed) => result.kind = "raise"

\* analyze_weather_trends ended after its one request failed in transport.
C7_Witness ==
    /\ pc = "done"
    /\ tool = "analyze_weather_trends"
    /\ outcome.kind = "exception" /\ outcome.exc = "ClientConnectorError"
    /\ Len(requests) = 1
    /\ result.kind = "raise"

AnalysisReturned ==
    /\ pc = "done"
    /\ tool = "analyze_weather_trends"
    /\ result.kind = "return"

\* The forecast series the provider answered with.
ReturnedSeries ==
    IF "list" \in outcome.body.keys THEN outcome.body.list ELSE <<>>

\* C8: on an empty series the report has trend "stable", average, minimum,
\* maximum and range all zero, dominant condition "Unknown", an empty
\* frequency mapping, no daily averages and point count 0.
C8_EmptySeriesReport ==
    (AnalysisReturned /\ ReturnedSeries = <<>>)
        => /\ result.report.trend = "stable"
           /\ result.report.average_temp.tenths = 0
           /\ result.report.min_temp.tenths = 0
           /\ result.report.max_temp.tenths = 0
           /\ result.report.temp_range.tenths = 0
           /\ result.report.dominant_condition = "Unknown"
           /\ result.report.condition_frequency = <<>>
           /\ result.report.daily_averages = <<>>
           /\ result.report.data_points = 0

\* The trend label as the claim states it, for temperatures t.
ClaimedTrend(t) ==
    LET delta(i) == IF i = 1 THEN 0 ELSE t[i] - t[i - 1]
        significant == Cardinality({i \in 1..Len(t) : delta(i) > 100 \/ delta(i) < -100})
        total == IF t = <<>> THEN 0 ELSE t[Len(t)] - t[1]
    IN  IF 5 * significant <= Len(t) THEN "stable"
        ELSE IF total > 0 THEN "warming"
        ELSE "cooling"

SeriesTemps == [i \in 1..Len(ReturnedSeries) |-> ReturnedSeries[i].temp]

\* C9: the trend is "stable" when the deltas of absolute value > 1 number at
\* most 0.2 times the deltas (the leading zero included), else "warming"
\* when the deltas sum to > 0, else "cooling"; [300, 300.5, 301] is stable
\* and [290, 293, 296] is warming.
C9_TrendLabel ==
    AnalysisReturned
        => /\ result.report.trend = ClaimedTrend(SeriesTemps)
           /\ categorize_trend(calculate_changes(<<30000, 30050, 30100>>)) = "stable"
           /\ categorize_trend(calculate_changes(<<29000, 29300, 29600>>)) = "warming"

\* Five points with one significant delta: 1 <= 0.2 * 5, so "stable".
C9_Witness ==
    /\ AnalysisReturned
    /\ Len(SeriesTemps) = 5
    /\ Cardinality({i \in 2..5 : Abs(SeriesTemps[i] - SeriesTemps[i - 1]) > 100}) = 1
    /\ result.report.trend = "stable"

SeriesDates == {DateKey(ReturnedSeries[i].dt) : i \in 1..Len(ReturnedSeries)}

FirstSeen(date) ==
    CHOOSE i \in 1..Len(ReturnedSeries) :
        /\ DateKey(ReturnedSeries[i].dt) = date
        /\ \A j \in 1..(i - 1) : DateKey(ReturnedSeries[j].dt) # date

PointsOn(date) ==
    {i \in 1..Len(ReturnedSeries) : DateKey(ReturnedSeries[i].dt) = date}

\* C10: daily_averages has one entry per distinct calendar date of the
\* series, the dates pairwise distinct and in first-seen order, each entry
\* averaging exactly the points of its date, and data_points is the number
\* of points.
C10_DailyBuckets ==
    AnalysisReturned
        => LET da == result.report.daily_averages IN
           /\ {da[i].date : i \in 1..Len(da)} = SeriesDates
           /\ Len(da) = Cardinality(SeriesDates)
           /\ \A i, j \in 1..Len(da) :
                i < j => FirstSeen(da[i].date) < FirstSeen(da[j].date)
           /\ \A i \in 1..Len(da) :
                da[i].avg_temp.den = Cardinality(PointsOn(da[i].date))
           /\ result.report.data_points = Len(ReturnedSeries)

\* A series that visits day 1, then day 0, then day 1 again.
C10_Witness ==
    /\ AnalysisReturned
    /\ Len(ReturnedSeries) >= 3
    /\ DateKey(ReturnedSeries[1].dt).day = 1
    /\ DateKey(ReturnedSeries[2].dt).day = 0
    /\ DateKey(ReturnedSeries[3].dt).day = 1
    /\ Len(result.report.daily_averages) = 2
    /\ result.report.daily_averages[1].date.day = 1


Converters == {"kelvin_to_celsius", "miles_to_km"}

\* The argument is an int or a float and is not below zero.
NonNegativeNumber(x) == x.type \in {"int", "float"} /\ x.val >= 0

\* C11: kelvin_to_celsius and miles_to_km raise ValidationError exactly when
\* the argument is not a number or is negative; otherwise they return the
\* argument unchanged together with Kelvin - 273.15, respectively
\* miles x 1.60934; they issue no request, log nothing on success and leave
\* the configuration alone.
C11_Converters ==
    tool \in Converters
        => /\ pc = "done"
           /\ requests = <<>>
           /\ apiKey \in ApiKeys
           /\ ~NonNegativeNumber(number)
                => result.kind = "raise" /\ result.type = "ValidationError"
           /\ NonNegativeNumber(number)
                => /\ result.kind = "return"
                   /\ logs = <<>>
                   /\ tool = "kelvin_to_celsius"
                        => /\ result.report.kelvin = number
                           /\ result.report.celsius + 27315 = number.val
                   /\ tool = "miles_to_km"
                        => /\ result.report.miles = number
                           /\ result.report.kilometers = 160934 * number.val

\* kelvin_to_celsius(0) returned -273.15.
C11_Witness ==
    /\ tool = "kelvin_to_celsius"
    /\ number = [type |-> "int", val |-> 0]
    /\ result.kind = "return"
    /\ result.report.celsius = -27315


\* The Kelvin temperatures of the returned points that fall on a date, in
\* series order.
TempsOn(date) ==
    LET on(pt) == DateKey(pt.dt) = date
        pts == SelectSeq(ReturnedSeries, on)
    IN  [i \in 1..Len(pts) |-> pts[i].temp]

\* C12: each entry of daily_averages pairs its date with the mean of that
\* date's Kelvin temperatures converted to Celsius: mean - 273.15.
C12_DailyAveragesInCelsius ==
    AnalysisReturned
        => \A i \in 1..Len(result.report.daily_averages) :
              LET entry == result.report.daily_averages[i]
                  temps == TempsOn(entry.date)
              IN  entry.avg_temp.num * Len(temps)
                    = (SumSeq(temps) - 27315 * Len(temps)) * entry.avg_temp.den


\* 12:00:00 of a calendar date, as a timestamp.
TrueNoon(date) == date.day * 86400 + 43200

\* The timestamps of the formatted forecast's points that fall on a date.
StampsOn(date) ==
    {result.data.list[i].dt : i \in {j \in 1..Len(result.data.list) :
        /\ "dt" \in result.data.list[j].has
        /\ DateKey(result.data.list[j].dt) = date}}

\* C13: the point format_forecast renders for a date is a point of that
\* date at the least absolute distance from 12:00:00 of the date, whatever
\* the seconds of the timestamps and whichever point of the date comes first.
C13_RepresentativeClosestToNoon ==
    (formatted.kind = "return" /\ formatted.text = "report")
        => \A i \in 1..Len(formatted.lines) :
              LET line == formatted.lines[i] IN
              /\ line.dt \in StampsOn(line.date)
              /\ \A dt \in StampsOn(line.date) :
                    Abs(line.dt - TrueNoon(line.date)) <= Abs(dt - TrueNoon(line.date))

====
